---- MODULE Spec2Model ----
(***************************************************************************)
(* Footprint matcher of the square-footage application.                    *)
(*                                                                         *)
(*   src/src/lib/services/buildingFootprints.ts                            *)
(*       isInAlaska, findBuildingAtCoordinates, calculatePerimeter,        *)
(*       perimeterToFeet, areaToSquareFeet, findNearbyBuildings            *)
(*   src/src/components/BuildingFootprintCalculator.svelte                 *)
(*       findBuilding, findNearby, selectNearbyBuilding,                   *)
(*       testGeoJsonAccess                                                 *)
(*   src/src/lib/services/map.ts                                           *)
(*       initLeaflet, createMap                                            *)
(*   src/src/components/LeafletMap.svelte, src/unnamed/part_001            *)
(*       onMount, onDestroy, the effects, updateMapWithResult,             *)
(*       displayBuildingPolygon                                            *)
(*                                                                         *)
(* Geometry lives on an integer grid: a position is <<x, y>> with x the    *)
(* longitude and y the latitude (GeoJSON order), one grid step being       *)
(* StepMeters metres.  The turf calls the code makes are modelled by what  *)
(* the library does on such positions: ray casting with the boundary       *)
(* counted as inside and holes excluded (booleanPointInPolygon), the       *)
(* bounding-box centre or else the nearest vertex (pointOnFeature), ring   *)
(* validation (polygon, lineString), lengths and areas.  Distances are     *)
(* planar and rounded down to whole metres.                                *)
(*                                                                         *)
(* A JavaScript exception is a value: every modelled call returns a record *)
(* with a field saying whether it threw.  A feature is referred to by its  *)
(* index in the features sequence of the payload.  The debugInfo text of   *)
(* the component is display only and is left out.                          *)
(***************************************************************************)
EXTENDS Integers, Sequences, FiniteSets, TLC

\* ------------------------------------------------------------------ bounds
\* longest feature collection a payload carries
MaxFeatures == 3
\* number of search radii the user can pick (multiples of RadiusStep)
MaxRadiusSteps == 3

\* longest feature collection of the footprint file the component reads
MaxFileFeatures == 2

\* number of radii the form of the component is given
MaxFormRadiusSteps == 2

\* largest length (metres) and area (square metres) handed to the unit
\* conversions on their own
MaxMeasure == 40

\* number of createMap calls followed
MaxCalls == 3
\* number of distinct geocoding results
MaxResults == 2
\* number of updateMapWithResult calls followed
MaxUpdates == 3
\* number of displayBuildingPolygon calls followed
MaxDisplays == 3

\* granularity of the radius input (step="10" of the input element)
RadiusStep == 10
\* metres per grid step
StepMeters == RadiusStep

\* the query points: longitudes and latitudes on the grid
Lngs == 0..6
Lats == {2, 5}

\* The grid in degrees: coordinates are counted in 1e-4 degree, and the grid
\* origin lies at 130.0004 W, 61 N, so that the grid straddles the eastern
\* bound of the region.
GridOrigin == [lng |-> -1300004, lat |-> 610000]
DegLng(x) == GridOrigin.lng + x
DegLat(y) == GridOrigin.lat + y

\* ALASKA_BOUNDS, in 1e-4 degree
ALASKA_BOUNDS ==
    [west |-> -1800000, east |-> -1300000, south |-> 510000, north |-> 720000]

isInAlaskaOpenEast(latDeg, lngDeg) ==
    /\ lngDeg >= ALASKA_BOUNDS.west
    /\ lngDeg < ALASKA_BOUNDS.east
    /\ latDeg >= ALASKA_BOUNDS.south
    /\ latDeg <= ALASKA_BOUNDS.north

\* isInAlaska(lat, lng), both in 1e-4 degree
isInAlaska(latDeg, lngDeg) ==
    /\ lngDeg >= ALASKA_BOUNDS.west
    /\ lngDeg <= ALASKA_BOUNDS.east
    /\ latDeg >= ALASKA_BOUNDS.south
    /\ latDeg <= ALASKA_BOUNDS.north

\* ---------------------------------------------------------------- numbers
Abs(n) == IF n < 0 THEN -n ELSE n

RECURSIVE SumSeq(_)
SumSeq(s) == IF s = <<>> THEN 0 ELSE Head(s) + SumSeq(Tail(s))

RECURSIVE FlattenSeq(_)
\* concatenation of a sequence of sequences
FlattenSeq(ss) == IF ss = <<>> THEN <<>> ELSE Head(ss) \o FlattenSeq(Tail(ss))

\* --------------------------------------------------------------- features
\* a closed axis-parallel ring, counter-clockwise from its lower left corner
Rect(x1, y1, x2, y2) ==
    << <<x1, y1>>, <<x2, y1>>, <<x2, y2>>, <<x1, y2>>, <<x1, y1>> >>

PolygonGeom(rings) == [type |-> "Polygon", coordinates |-> rings]
MultiPolygonGeom(polys) == [type |-> "MultiPolygon", coordinates |-> polys]
\* a feature record whose geometry member is null
NullGeom == [type |-> "null", coordinates |-> <<>>]

\* The footprints a payload can carry.  A payload's features sequence is a
\* sequence of these names; a feature is referred to by its index in it.
FeatureNames == {"A", "S", "H", "G", "M", "E", "N"}

Geometry(name) ==
    CASE name = "A" -> PolygonGeom(<< Rect(0, 0, 4, 4) >>)
      \* inside A, same centre as A
      [] name = "S" -> PolygonGeom(<< Rect(1, 1, 3, 3) >>)
      \* a polygon with a hole
      [] name = "H" -> PolygonGeom(<< Rect(4, 0, 8, 4), Rect(5, 1, 7, 3) >>)
      \* two disjoint squares
      [] name = "G" -> MultiPolygonGeom(<< << Rect(0, 4, 2, 6) >>,
                                           << Rect(6, 4, 8, 6) >> >>)
      \* a square and a constituent polygon whose outer ring is one position
      [] name = "M" -> MultiPolygonGeom(<< << Rect(0, 0, 4, 4) >>,
                                           << << <<6, 6>> >> >> >>)
      \* a polygon whose outer ring is empty
      [] name = "E" -> PolygonGeom(<< <<>> >>)
      \* a feature without geometry
      [] name = "N" -> NullGeom

\* the constituent polygons of a geometry, each a sequence of rings
PolysOf(g) == IF g.type = "Polygon" THEN << g.coordinates >> ELSE g.coordinates

\* ------------------------------------------------- turf: point in polygon
\* the ring without its closing position
OpenRing(ring) ==
    IF ring[1] = ring[Len(ring)] THEN SubSeq(ring, 1, Len(ring) - 1) ELSE ring

\* pt lies on the segment from a to b
OnSegment(pt, a, b) ==
    /\ pt[2] * (a[1] - b[1]) + a[2] * (b[1] - pt[1]) + b[2] * (pt[1] - a[1]) = 0
    /\ (a[1] - pt[1]) * (b[1] - pt[1]) <= 0
    /\ (a[2] - pt[2]) * (b[2] - pt[2]) <= 0

\* the ray from pt towards +x crosses the segment from a to b:
\* pt[1] < (b[1] - a[1]) * (pt[2] - a[2]) / (b[2] - a[2]) + a[1], exactly
RayCrosses(pt, a, b) ==
    /\ (a[2] > pt[2]) # (b[2] > pt[2])
    /\ LET d == b[2] - a[2]
           l == (pt[1] - a[1]) * d
           r == (b[1] - a[1]) * (pt[2] - a[2])
       IN  IF d > 0 THEN l < r ELSE l > r

\* ray casting over a non-empty ring; an edge through pt decides at once
inRing(pt, ring, ignoreBoundary) ==
    LET r == OpenRing(ring)
        n == Len(r)
        prev(i) == IF i = 1 THEN n ELSE i - 1
    IN  IF \E i \in 1..n : OnSegment(pt, r[i], r[prev(i)])
        THEN ~ignoreBoundary
        ELSE Cardinality({i \in 1..n : RayCrosses(pt, r[i], r[prev(i)])}) % 2 = 1

RECURSIVE HoleScan(_, _, _)
\* "hole" when pt is strictly inside a hole ring from index k on,
\* "fault" when a ring read on the way has no first position
HoleScan(pt, poly, k) ==
    IF k > Len(poly) THEN "none"
    ELSE IF Len(poly[k]) = 0 THEN "fault"
    ELSE IF inRing(pt, poly[k], TRUE) THEN "hole"
    ELSE HoleScan(pt, poly, k + 1)

PolyTestOuterOnly(pt, poly) ==
    IF Len(poly) = 0 \/ Len(poly[1]) = 0 THEN "fault"
    ELSE IF ~inRing(pt, poly[1], FALSE) THEN "out"
    ELSE "in"

\* one constituent polygon: "in", "out" or "fault"
PolyTest(pt, poly) ==
    IF Len(poly) = 0 \/ Len(poly[1]) = 0 THEN "fault"
    ELSE IF ~inRing(pt, poly[1], FALSE) THEN "out"
    ELSE LET h == HoleScan(pt, poly, 2)
         IN  IF h = "fault" THEN "fault" ELSE IF h = "hole" THEN "out" ELSE "in"

RECURSIVE PolysScan(_, _, _)
\* the constituent polygons in order, stopping at the first that holds pt
PolysScan(pt, polys, i) ==
    IF i > Len(polys) THEN "out"
    ELSE LET t == PolyTest(pt, polys[i])
         IN  IF t = "out" THEN PolysScan(pt, polys, i + 1) ELSE t

\* turf.booleanPointInPolygon(point, geometry): "in", "out", or "fault" when
\* the library throws (no geometry, a ring without positions)
booleanPointInPolygon(pt, g) ==
    IF g.type = "null" THEN "fault" ELSE PolysScan(pt, PolysOf(g), 1)

\* ------------------------------------------------------ turf: measurement
\* turf.distance in whole metres
distance(p, q) ==
    LET dx == Abs(p[1] - q[1])
        dy == Abs(p[2] - q[2])
        n  == (dx * dx + dy * dy) * StepMeters * StepMeters
    IN  CHOOSE r \in 0..((dx + dy) * StepMeters) :
            r * r <= n /\ (r + 1) * (r + 1) > n

\* turf.lineString throws on fewer than two positions
lineStringThrows(coords) == Len(coords) < 2

\* turf.length of a line string, metres
length(coords) ==
    SumSeq([i \in 1..(Len(coords) - 1) |-> distance(coords[i], coords[i + 1])])

\* twice the absolute shoelace area of a ring, in grid units
RingArea2(ring) ==
    LET n == Len(ring)
        nxt(i) == IF i = n THEN 1 ELSE i + 1
    IN  Abs(SumSeq([i \in 1..n |->
              ring[i][1] * ring[nxt(i)][2] - ring[nxt(i)][1] * ring[i][2]]))

polygonAreaOuterOnly(poly) ==
    IF Len(poly) = 0 THEN 0 ELSE RingArea2(poly[1])

\* area of one polygon: the outer ring less every hole
polygonArea(poly) ==
    IF Len(poly) = 0 THEN 0
    ELSE RingArea2(poly[1])
           - SumSeq([k \in 1..(Len(poly) - 1) |-> RingArea2(poly[k + 1])])

\* turf.area of a Polygon or MultiPolygon geometry, square metres
turfArea(g) ==
    (SumSeq([i \in 1..Len(PolysOf(g)) |-> polygonArea(PolysOf(g)[i])])
       * StepMeters * StepMeters) \div 2

\* ------------------------------------------------ turf: point on feature
\* turf.polygon rejects a ring of fewer than four positions or one that is
\* not closed; turf.multiPolygon validates nothing
polygonThrows(rings) ==
    \E k \in 1..Len(rings) :
        Len(rings[k]) < 4 \/ rings[k][1] # rings[k][Len(rings[k])]

\* every position of the geometry, in ring order
Vertices(g) == FlattenSeq(FlattenSeq(PolysOf(g)))

SetMin(S) == CHOOSE m \in S : \A x \in S : m <= x
SetMax(S) == CHOOSE m \in S : \A x \in S : x <= m

\* turf.center: the centre of the bounding box
center(g) ==
    LET v == Vertices(g)
        xs == {v[i][1] : i \in 1..Len(v)}
        ys == {v[i][2] : i \in 1..Len(v)}
    IN  << (SetMin(xs) + SetMax(xs)) \div 2, (SetMin(ys) + SetMax(ys)) \div 2 >>

\* turf.nearestPoint: the first vertex at the least distance
nearestPoint(target, v) ==
    LET best == CHOOSE i \in 1..Len(v) :
                  /\ \A j \in 1..Len(v) : distance(target, v[i]) <= distance(target, v[j])
                  /\ \A j \in 1..(i - 1) : distance(target, v[j]) > distance(target, v[i])
    IN  v[best]

\* turf.pointOnFeature of a geometry with at least one position: the centre
\* when it lies on the surface, else the nearest vertex
pointOnFeature(g) ==
    IF booleanPointInPolygon(center(g), g) = "in"
    THEN center(g)
    ELSE nearestPoint(center(g), Vertices(g))

pointOnFeatureThrows(g) == booleanPointInPolygon(center(g), g) = "fault"

\* ------------------------------------------------- the library, tabulated
\* The footprints and the query points are fixed, so each library result is
\* computed once per footprint (and query point) and looked up afterwards.
QueryPoints == Lngs \X Lats

\* booleanPointInPolygon(userPoint, feature) for every query point
PipTable ==
    [pt \in QueryPoints, name \in FeatureNames |->
        booleanPointInPolygon(pt, Geometry(name))] @@ <<>>

\* ------------------------------------------------------------ the payload
\* What fetch and response.json() hand to a service call: whether the load
\* succeeded (ok) and, when it did not, how it failed; whether the parsed
\* object has a features member, and the features (names of FeatureNames).
Collections == UNION {[1..n -> FeatureNames] : n \in 0..MaxFeatures}

\* the ways a load fails: fetch rejects (source unreachable), the response is
\* not ok, response.json() rejects (the body is no JSON)
LoadFailures == {"fetch rejected", "response not ok", "json rejected"}

\* what a load delivers besides the file
Responses ==
    {[ok |-> TRUE, failure |-> ""]}
      \cup {[ok |-> FALSE, failure |-> f] : f \in LoadFailures}

Payloads ==
    {[ok |-> TRUE, failure |-> "", hasFeatures |-> TRUE, features |-> c] :
        c \in Collections}
      \cup {[ok |-> TRUE, failure |-> "", hasFeatures |-> FALSE, features |-> <<>>]}
      \cup {[ok |-> FALSE, failure |-> f, hasFeatures |-> FALSE, features |-> <<>>] :
              f \in LoadFailures}

\* the query point of a call: GeoJSON order, longitude first
point(lng, lat) == <<lng, lat>>

\* error messages
MsgLoadFailed == "Failed to load GeoJSON"
MsgFetch == "Failed to fetch"
MsgJson == "SyntaxError"
MsgNoFeatures == "GeoJSON contains no features"
MsgTypeError == "TypeError"
MsgLineString == "coordinates must be an array of two or more positions"

\* ------------------------------------------------ findBuildingAtCoordinates
\* the callback of features.find: a fault of the test counts as no match
FindCallbackNoCatch(pt, name) == PipTable[pt, name]

FindCallback(pt, name) ==
    IF PipTable[pt, name] = "fault" THEN "out" ELSE PipTable[pt, name]

RECURSIVE FindLast(_, _, _)
FindLast(pt, features, i) ==
    IF i < 1 THEN 0
    ELSE IF FindCallback(pt, features[i]) = "fault" THEN -1
    ELSE IF FindCallback(pt, features[i]) = "in" THEN i
    ELSE FindLast(pt, features, i - 1)

RECURSIVE FindFrom(_, _, _)
\* Array.prototype.find from index i on: the index of the first feature the
\* callback accepts, 0 when there is none, -1 when the callback throws
FindFrom(pt, features, i) ==
    IF i > Len(features) THEN 0
    ELSE IF FindCallback(pt, features[i]) = "fault" THEN -1
    ELSE IF FindCallback(pt, features[i]) = "in" THEN i
    ELSE FindFrom(pt, features, i + 1)

FindLastMatch(pt, features) == FindLast(pt, features, Len(features))

\* geojson.features.find(...)
FindMatch(pt, features) == FindFrom(pt, features, 1)

\* calculatePerimeter of the service: no try around lineString
calculatePerimeterThrows(g) ==
    \E i \in 1..Len(PolysOf(g)) : lineStringThrows(PolysOf(g)[i][1])

calculatePerimeterAllRings(g) ==
    SumSeq([i \in 1..Len(PolysOf(g)) |->
        SumSeq([k \in 1..Len(PolysOf(g)[i]) |-> length(PolysOf(g)[i][k])])])

calculatePerimeter(g) ==
    IF g.type = "Polygon" THEN length(g.coordinates[1])
    ELSE IF g.type = "MultiPolygon"
    THEN SumSeq([i \in 1..Len(g.coordinates) |-> length(g.coordinates[i][1])])
    ELSE 0

MeasureTable ==
    [name \in FeatureNames |->
        LET g == Geometry(name)
        IN  IF g.type = "null"
            THEN [throws |-> TRUE, perimeter |-> 0, area |-> 0]
            ELSE [throws |-> calculatePerimeterThrows(g),
                  perimeter |-> IF calculatePerimeterThrows(g) THEN 0
                                ELSE calculatePerimeter(g),
                  area |-> turfArea(g)]] @@ <<>>

\* outcomes of a service call; warned: the call wrote the region warning
Threw(msg) ==
    [threw |-> TRUE, message |-> msg, found |-> FALSE, feature |-> 0,
     perimeter |-> 0, area |-> 0, list |-> <<>>, warned |-> FALSE]
ReturnedNull ==
    [threw |-> FALSE, message |-> "", found |-> FALSE, feature |-> 0,
     perimeter |-> 0, area |-> 0, list |-> <<>>, warned |-> FALSE]
ReturnedMatch(i, p, a) ==
    [threw |-> FALSE, message |-> "", found |-> TRUE, feature |-> i,
     perimeter |-> p, area |-> a, list |-> <<>>, warned |-> FALSE]
ReturnedList(l) ==
    [threw |-> FALSE, message |-> "", found |-> FALSE, feature |-> 0,
     perimeter |-> 0, area |-> 0, list |-> l, warned |-> FALSE]

\* the error a failed load raises inside the try of a service call
LoadError(geojson) ==
    IF geojson.failure = "fetch rejected" THEN MsgFetch
    ELSE IF geojson.failure = "json rejected" THEN MsgJson
    ELSE MsgLoadFailed

CatchReturnNull(msg) == ReturnedNull

\* the outer catch of a service call: log and throw the error again
CatchRethrow(msg) == Threw(msg)

\* the features check of both service calls
NoFeaturesNeverEmpty(geojson) == ~geojson.hasFeatures

NoFeatures(geojson) == ~geojson.hasFeatures \/ Len(geojson.features) = 0

\* ------------------------------------------------------ findNearbyBuildings
\* the sample logging reads features[0].geometry.type outside the loop's try
SampleThrows(features) ==
    Len(features) = 0 \/ Geometry(features[1]).type = "null"


\* the body of the loop's try throws for this feature: no geometry, a ring
\* turf.polygon rejects, or a fault inside pointOnFeature
FeatureThrows(name) ==
    LET g == Geometry(name)
    IN  \/ g.type = "null"
        \/ g.type = "Polygon" /\ polygonThrows(g.coordinates)
        \/ pointOnFeatureThrows(g)

FeatureThrowsTable == [name \in FeatureNames |-> FeatureThrows(name)] @@ <<>>

\* the catch of the loop: continue
FeatureSkipped(name) == FeatureThrowsTable[name]

\* turf.distance(userPoint, pointOnPolygon) for every query point and every
\* footprint the loop does not skip
DistanceTable ==
    [pt \in QueryPoints, name \in FeatureNames |->
        IF FeatureThrows(name) THEN 0
        ELSE distance(pt, pointOnFeature(Geometry(name)))] @@ <<>>

\* the radius test of the loop
WithinRadiusInclusive(d, radiusMeters) == d <= radiusMeters

WithinRadius(d, radiusMeters) == d < radiusMeters

RECURSIVE NearbyFrom(_, _, _, _)
\* the loop over the features from index i on: the entries pushed, in order
NearbyFrom(pt, features, radiusMeters, i) ==
    IF i > Len(features) THEN <<>>
    ELSE IF FeatureSkipped(features[i])
    THEN NearbyFrom(pt, features, radiusMeters, i + 1)
    ELSE LET d == DistanceTable[pt, features[i]]
         IN  IF WithinRadius(d, radiusMeters)
             THEN << [feature |-> i, distance |-> d] >>
                    \o NearbyFrom(pt, features, radiusMeters, i + 1)
             ELSE NearbyFrom(pt, features, radiusMeters, i + 1)

\* the comparator of the sort
compareDistance(a, b) == a.distance - b.distance

RECURSIVE InsertBeforeTies(_, _)
InsertBeforeTies(e, sorted) ==
    IF sorted = <<>> THEN << e >>
    ELSE IF compareDistance(e, Head(sorted)) <= 0 THEN << e >> \o sorted
    ELSE << Head(sorted) >> \o InsertBeforeTies(e, Tail(sorted))

RECURSIVE Insert(_, _)
\* e placed behind every entry that does not compare greater than it
Insert(e, sorted) ==
    IF sorted = <<>> THEN << e >>
    ELSE IF compareDistance(e, Head(sorted)) < 0 THEN << e >> \o sorted
    ELSE << Head(sorted) >> \o Insert(e, Tail(sorted))

RECURSIVE SortFrom(_, _)
SortFrom(list, sorted) ==
    IF list = <<>> THEN sorted ELSE SortFrom(Tail(list), Insert(Head(list), sorted))

Unsorted(list) == list

\* Array.prototype.sort with compareDistance: a stable sort
sort(list) == SortFrom(list, <<>>)

\* ---------------------------------- findBuildingAtCoordinates, the function
\* the radius of the scan that follows a miss, metres
InternalRadius == 50

ReturnClosest(nearby) ==
    IF nearby = <<>> THEN ReturnedNull
    ELSE ReturnedMatch(nearby[1].feature, 0, 0)

\* what follows a miss: the nearby list is logged and null is returned
AfterMiss(nearby) == ReturnedNull

\* findBuildingAtCoordinates behind its region check: load, features check,
\* scan, the nearby scan after a miss, measurement
containmentSearch(lat, lng, geojson) ==
    LET userPoint == point(lng, lat)
        matched == FindMatch(userPoint, geojson.features)
        m == MeasureTable[geojson.features[matched]]
    IN  IF ~geojson.ok THEN CatchRethrow(LoadError(geojson))
        ELSE IF NoFeatures(geojson) THEN CatchRethrow(MsgNoFeatures)
        ELSE IF matched = -1 THEN CatchRethrow(MsgTypeError)
        ELSE IF matched = 0
        THEN AfterMiss(sort(NearbyFrom(userPoint, geojson.features, InternalRadius, 1)))
        ELSE IF m.throws THEN CatchRethrow(MsgLineString)
        ELSE ReturnedMatch(matched, m.perimeter, m.area)

GuardBlocks(lat, lng, geojson) ==
    IF isInAlaska(DegLat(lat), DegLng(lng))
    THEN containmentSearch(lat, lng, geojson)
    ELSE [Threw("outside Alaska") EXCEPT !.warned = TRUE]

\* findBuildingAtCoordinates(lat, lng) on the payload the fetch delivers: the
\* region check only writes a warning
findBuildingAtCoordinates(lat, lng, geojson) ==
    [containmentSearch(lat, lng, geojson)
        EXCEPT !.warned = ~isInAlaska(DegLat(lat), DegLng(lng))]

\* findNearbyBuildings(lat, lng, radiusMeters) on the payload delivered
findNearbyBuildings(lat, lng, radiusMeters, geojson) ==
    LET userPoint == point(lng, lat)
    IN  IF ~geojson.ok THEN CatchRethrow(LoadError(geojson))
        ELSE IF NoFeatures(geojson) THEN CatchRethrow(MsgNoFeatures)
        ELSE IF SampleThrows(geojson.features) THEN CatchRethrow(MsgTypeError)
        ELSE ReturnedList(sort(NearbyFrom(userPoint, geojson.features, radiusMeters, 1)))

\* -------------------------------------------------------------- the state
VARIABLES
    geojson,          \* the payload the footprint file delivers
    lat, lng,         \* the coordinates of the form, grid units
    searchRadius,     \* the radius of the form, metres
    loading,          \* a search is in flight
    error,            \* the error shown, kind "none" for null
    warning,          \* the advisory shown, kind "none" for null
    building,         \* the feature shown (its index in the file), 0 for null
    nearbyBuildings,  \* the proximity results listed
    perimeter, area,  \* the measurements shown, in 1e-5 ft and 1e-4 sq ft
    pending,          \* the component function suspended on its service call
    ret,              \* the outcome of the last direct service call
    browser,          \* the browser flag of $app/environment
    L,                \* map.ts: the loaded library, "undefined" before
    imports,          \* how many times import('leaflet') was performed
    links,            \* stylesheet links appended to document.head
    calls,            \* where each createMap call stands
    mounted,          \* the map component: "no", "yes" or "destroyed"
    map,              \* the map of the component, "null" before
    geocodingResult,  \* the geocodingResult prop, 0 for null
    marker,           \* the marker the component holds, 0 for null
    markers,          \* the markers on the map
    mapCenter,        \* what the view of the map is set on
    updates,          \* number of updateMapWithResult calls that ran
    buildingProp,     \* the building prop of the map component, "" for null
    polygonLayer,     \* the layer or array of layers the component holds
    layers,           \* the polygon layers on the map
    displays          \* number of displayBuildingPolygon calls that ran

form == <<lat, lng, searchRadius>>
shown == <<loading, error, warning, building, nearbyBuildings, perimeter, area>>
leaflet == <<browser, L, imports, links, calls>>
view == <<mounted, map, geocodingResult, marker, markers, mapCenter, updates,
          buildingProp, polygonLayer, layers, displays>>
mapVars == <<leaflet, view>>
calculator == <<geojson, form, shown, pending, ret>>
vars == <<calculator, mapVars>>

Radii == {k * RadiusStep : k \in 1..MaxRadiusSteps}
FormRadii == {k * RadiusStep : k \in 1..MaxFormRadiusSteps}

\* values of error and warning
NoError == [kind |-> "none", message |-> ""]
ErrNoBuilding == [kind |-> "No building found at these coordinates", message |-> ""]
ErrFind(msg) == [kind |-> "Error: ", message |-> msg]
ErrNearby(msg) == [kind |-> "Error finding nearby buildings: ", message |-> msg]

NoWarning == [kind |-> "none", n |-> 0, closest |-> 0]
WarnOutside ==
    [kind |-> "Warning: These coordinates are outside Alaska's bounds.",
     n |-> 0, closest |-> 0]
WarnNoneNearby(radius) ==
    [kind |-> "No buildings found within N meters", n |-> radius, closest |-> 0]
WarnFound(n, d) ==
    [kind |-> "Found N buildings nearby. Closest is D m away.", n |-> n, closest |-> d]

Idle == [fn |-> "none", lat |-> 0, lng |-> 0, radius |-> 0]

NoCall == [fn |-> "none", lat |-> 0, lng |-> 0, radius |-> 0, out |-> ReturnedNull]

\* the createMap calls the model follows; call 1 is the one of the map
\* component's onMount
Calls == 1..MaxCalls

\* what the component holds in polygonLayer
NoLayer == [kind |-> "null", ids |-> <<>>]
OneLayer(id) == [kind |-> "layer", ids |-> <<id>>]
LayerArray(ids) == [kind |-> "array", ids |-> ids]

\* what the view of a map is set on
InitialView == [kind |-> "initial", of |-> 0]
ResultView(r) == [kind |-> "result", of |-> r]
BoundsView(n) == [kind |-> "bounds", of |-> n]

\* map.ts as loaded and the map component before it is mounted
MapIdle ==
    /\ L = "undefined"
    /\ imports = 0
    /\ links = 0
    /\ calls = [c \in Calls |-> "idle"]
    /\ mounted = "no"
    /\ map = "null"
    /\ geocodingResult = 0
    /\ marker = 0
    /\ markers = {}
    /\ mapCenter = InitialView
    /\ updates = 0
    /\ buildingProp = ""
    /\ polygonLayer = NoLayer
    /\ layers = {}
    /\ displays = 0

\* ----------------------------------------- the service calls on their own
\* the component as constructed
InitShown ==
    /\ MapIdle
    /\ loading = FALSE
    /\ error = NoError
    /\ warning = NoWarning
    /\ building = 0
    /\ nearbyBuildings = <<>>
    /\ perimeter = 0
    /\ area = 0
    /\ pending = Idle

InitSearch ==
    /\ geojson \in Payloads
    /\ lat \in Lats
    /\ lng \in Lngs
    /\ searchRadius \in Radii
    /\ ret = NoCall
    /\ browser = TRUE
    /\ InitShown

CallFindBuildingAtCoordinates ==
    /\ ret' = [fn |-> "findBuildingAtCoordinates", lat |-> lat, lng |-> lng,
               radius |-> 0, out |-> findBuildingAtCoordinates(lat, lng, geojson)]
    /\ UNCHANGED <<mapVars, geojson, form, shown, pending>>

CallFindNearbyBuildings ==
    /\ ret' = [fn |-> "findNearbyBuildings", lat |-> lat, lng |-> lng,
               radius |-> searchRadius,
               out |-> findNearbyBuildings(lat, lng, searchRadius, geojson)]
    /\ UNCHANGED <<mapVars, geojson, form, shown, pending>>

NextSearch == CallFindBuildingAtCoordinates \/ CallFindNearbyBuildings

SpecSearch == InitSearch /\ [][NextSearch]_vars

\* ------------------------------------------------ isInAlaska on its own
\* latitudes and longitudes handed to isInAlaska, in 1e-4 degree: around each
\* bound, Anchorage, New York, the equator and the prime meridian
RegionLats == {407000, 509999, 510000, 510001, 612000, 719999, 720000, 720001,
               0, 900000}
RegionLngs == {-1800001, -1800000, -1799999, -1499000, -1300001, -1300000,
               -1299999, -740000, 0, 1800000}

InitRegion ==
    /\ geojson \in {p \in Payloads : ~p.hasFeatures /\ p.ok}
    /\ lat \in RegionLats
    /\ lng \in RegionLngs
    /\ searchRadius = RadiusStep
    /\ ret = NoCall
    /\ browser = TRUE
    /\ InitShown

CallIsInAlaska ==
    /\ ret' = [fn |-> "isInAlaska", lat |-> lat, lng |-> lng, radius |-> 0,
               out |-> isInAlaska(lat, lng)]
    /\ UNCHANGED <<mapVars, geojson, form, shown, pending>>

NextRegion == CallIsInAlaska

SpecRegion == InitRegion /\ [][NextRegion]_vars

\* --------------------------------------- BuildingFootprintCalculator.svelte
\* the conversion factors, times 1e5 and 1e4
FeetPerMeter == 328084
SqFeetPerSqMeter == 107639

perimeterToFeetShortFactor(meters) == meters * 328100

\* perimeterToFeet, in 1e-5 ft
perimeterToFeet(meters) == meters * FeetPerMeter
\* areaToSquareFeet, in 1e-4 sq ft
areaToSquareFeet(squareMeters) == squareMeters * SqFeetPerSqMeter

\* ------------------------------------------ the conversions on their own
\* the numbers handed to the conversions
Measures == -5..MaxMeasure

InitUnits ==
    /\ geojson \in {p \in Payloads : ~p.hasFeatures /\ p.ok}
    /\ lat = 2
    /\ lng = 2
    /\ searchRadius = RadiusStep
    /\ ret \in {[fn |-> "none", arg |-> m, out |-> 0] : m \in Measures}
    /\ browser = TRUE
    /\ InitShown

CallPerimeterToFeet ==
    /\ ret' = [fn |-> "perimeterToFeet", arg |-> ret.arg,
               out |-> perimeterToFeet(ret.arg)]
    /\ UNCHANGED <<mapVars, geojson, form, shown, pending>>

CallAreaToSquareFeet ==
    /\ ret' = [fn |-> "areaToSquareFeet", arg |-> ret.arg,
               out |-> areaToSquareFeet(ret.arg)]
    /\ UNCHANGED <<mapVars, geojson, form, shown, pending>>

NextUnits == CallPerimeterToFeet \/ CallAreaToSquareFeet

SpecUnits == InitUnits /\ [][NextUnits]_vars

\* the footprints of the files the component can be served
FileFeatureNames == {"A", "S", "H", "M", "N"}

\* the footprint files the component can be served
FilePayloads ==
    {[ok |-> TRUE, failure |-> "", hasFeatures |-> TRUE, features |-> c] :
        c \in UNION {[1..n -> FileFeatureNames] : n \in 0..MaxFileFeatures}}
      \cup {[ok |-> TRUE, failure |-> "", hasFeatures |-> FALSE, features |-> <<>>]}

\* the advisory of the region guard for the coordinates of the form
RegionWarning(la, ln) ==
    IF isInAlaska(DegLat(la), DegLng(ln)) THEN NoWarning ELSE WarnOutside

\* calculatePerimeter of the component, its own copy of the computation
\* inside a try: 0 when reading the geometry or turf.lineString throws
calculatePerimeterCaught(g) ==
    IF g.type = "null" THEN 0
    ELSE IF g.type = "Polygon"
    THEN IF Len(g.coordinates) = 0 \/ lineStringThrows(g.coordinates[1]) THEN 0
         ELSE length(g.coordinates[1])
    ELSE IF g.type = "MultiPolygon"
    THEN IF \E i \in 1..Len(g.coordinates) :
                Len(g.coordinates[i]) = 0 \/ lineStringThrows(g.coordinates[i][1])
         THEN 0
         ELSE SumSeq([i \in 1..Len(g.coordinates) |-> length(g.coordinates[i][1])])
    ELSE 0

\* the component's perimeter of every footprint, worked out once
ComponentPerimeterTable ==
    [name \in FeatureNames |-> calculatePerimeterCaught(Geometry(name))] @@ <<>>

componentPerimeterAllRings(name) ==
    IF Geometry(name).type = "null" THEN 0
    ELSE calculatePerimeterAllRings(Geometry(name))

componentPerimeter(name) == ComponentPerimeterTable[name]

\* calculateArea of the component: 0 when turf throws
componentArea(name) ==
    IF Geometry(name).type = "null" THEN 0 ELSE MeasureTable[name].area

\* the guard at the head of findNearby
findNearbyReturnsAtOnce(isLoading) == isLoading

Init ==
    /\ geojson \in FilePayloads
    /\ lat = 2
    /\ lng = 2
    /\ searchRadius \in FormRadii
    /\ ret = NoCall
    /\ browser = TRUE
    /\ InitShown

\* the coordinates change (the inputs bound to lat and lng, or the effect
\* copying a geocoding result); the effect on lat and lng sets the warning
SetCoordinates(la, ln) ==
    /\ <<la, ln>> # <<lat, lng>>
    /\ lat' = la
    /\ lng' = ln
    /\ warning' = RegionWarning(la, ln)
    /\ UNCHANGED <<mapVars, geojson, searchRadius, loading, error, building,
                   nearbyBuildings, perimeter, area, pending, ret>>

\* the radius input changes
SetSearchRadius(r) ==
    /\ r # searchRadius
    /\ searchRadius' = r
    /\ UNCHANGED <<mapVars, geojson, lat, lng, shown, pending, ret>>

\* findBuilding up to its await (its buttons are disabled while loading)
FindBuildingStart ==
    /\ ~loading
    /\ loading' = TRUE
    /\ error' = NoError
    /\ building' = 0
    /\ nearbyBuildings' = <<>>
    /\ warning' = RegionWarning(lat, lng)
    /\ pending' = [fn |-> "findBuilding", lat |-> lat, lng |-> lng, radius |-> 0]
    /\ UNCHANGED <<mapVars, geojson, form, perimeter, area, ret>>

\* findBuilding from its await on: the result, the call of findNearby on a
\* null result, the catch and the finally
FindBuildingResumeWith(resp) ==
    /\ pending.fn = "findBuilding"
    /\ LET result == findBuildingAtCoordinates(pending.lat, pending.lng,
                          [geojson EXCEPT !.ok = resp.ok, !.failure = resp.failure])
       IN  IF result.threw
           THEN /\ error' = ErrFind(result.message)
                /\ loading' = FALSE
                /\ pending' = Idle
                /\ UNCHANGED <<building, perimeter, area>>
           ELSE IF result.found
           THEN /\ building' = result.feature
                /\ perimeter' = perimeterToFeet(result.perimeter)
                /\ area' = areaToSquareFeet(result.area)
                /\ loading' = FALSE
                /\ pending' = Idle
                /\ UNCHANGED error
           ELSE /\ error' = ErrNoBuilding
                /\ pending' = IF findNearbyReturnsAtOnce(loading)
                               THEN Idle
                               ELSE [fn |-> "findNearby", lat |-> lat, lng |-> lng,
                                     radius |-> searchRadius]
                /\ loading' = FALSE
                /\ UNCHANGED <<building, perimeter, area>>
    /\ UNCHANGED <<mapVars, geojson, form, warning, nearbyBuildings, ret>>

FindBuildingResume == \E resp \in Responses : FindBuildingResumeWith(resp)

\* findNearby up to its await
FindNearbyStart ==
    /\ ~findNearbyReturnsAtOnce(loading)
    /\ loading' = TRUE
    /\ pending' = [fn |-> "findNearby", lat |-> lat, lng |-> lng,
                   radius |-> searchRadius]
    /\ UNCHANGED <<mapVars, geojson, form, error, warning, building, nearbyBuildings,
                   perimeter, area, ret>>

\* findNearby from its await on
FindNearbyResumeWith(resp) ==
    /\ pending.fn = "findNearby"
    /\ LET result == findNearbyBuildings(pending.lat, pending.lng, pending.radius,
                          [geojson EXCEPT !.ok = resp.ok, !.failure = resp.failure])
       IN  IF result.threw
           THEN /\ error' = ErrNearby(result.message)
                /\ UNCHANGED <<nearbyBuildings, warning>>
           ELSE /\ nearbyBuildings' = result.list
                /\ warning' = IF Len(result.list) = 0
                               THEN WarnNoneNearby(searchRadius)
                               ELSE WarnFound(Len(result.list), result.list[1].distance)
                /\ UNCHANGED error
    /\ loading' = FALSE
    /\ pending' = Idle
    /\ UNCHANGED <<mapVars, geojson, form, building, perimeter, area, ret>>

FindNearbyResume == \E resp \in Responses : FindNearbyResumeWith(resp)

\* values of error only testGeoJsonAccess sets
ErrAccessFailed == [kind |-> "Failed to access GeoJSON file: ", message |-> "status"]
ErrAccessing(msg) == [kind |-> "Error accessing GeoJSON: ", message |-> msg]

\* testGeoJsonAccess up to its await
TestGeoJsonAccessStart ==
    /\ ~loading
    /\ loading' = TRUE
    /\ error' = NoError
    /\ pending' = [fn |-> "testGeoJsonAccess", lat |-> 0, lng |-> 0, radius |-> 0]
    /\ UNCHANGED <<mapVars, geojson, form, warning, building, nearbyBuildings,
                   perimeter, area, ret>>

FinallySkipped(isLoading) == isLoading

\* the finally of testGeoJsonAccess: loading = false
Finally(isLoading) == FALSE

\* testGeoJsonAccess from its await on: the response, the look at the first
\* feature, the catch and the finally
TestGeoJsonAccessResumeWith(resp) ==
    /\ pending.fn = "testGeoJsonAccess"
    /\ error' =
          IF resp.failure = "response not ok" THEN ErrAccessFailed
          ELSE IF ~resp.ok THEN ErrAccessing(LoadError(resp))
          ELSE IF /\ geojson.hasFeatures
                  /\ Len(geojson.features) > 0
                  /\ Geometry(geojson.features[1]).type = "null"
          THEN ErrAccessing(MsgTypeError)
          ELSE error
    /\ loading' = Finally(loading)
    /\ pending' = Idle
    /\ UNCHANGED <<mapVars, geojson, form, warning, building, nearbyBuildings,
                   perimeter, area, ret>>

TestGeoJsonAccessResume == \E resp \in Responses : TestGeoJsonAccessResumeWith(resp)

\* the entries of the list that carry a Select button
Listed == 1..(IF Len(nearbyBuildings) < 5 THEN Len(nearbyBuildings) ELSE 5)

SelectKeepsMeasurements(k) ==
    /\ k \in Listed
    /\ building' = nearbyBuildings[k].feature
    /\ error' = NoError
    /\ UNCHANGED <<mapVars, geojson, form, loading, warning, nearbyBuildings,
                   perimeter, area, pending, ret>>

\* selectNearbyBuilding(nearbyBuildings[k])
SelectNearbyBuilding(k) ==
    /\ k \in Listed
    /\ building' = nearbyBuildings[k].feature
    /\ perimeter' = perimeterToFeet(componentPerimeter(geojson.features[nearbyBuildings[k].feature]))
    /\ area' = areaToSquareFeet(componentArea(geojson.features[nearbyBuildings[k].feature]))
    /\ error' = NoError
    /\ UNCHANGED <<mapVars, geojson, form, loading, warning, nearbyBuildings, pending, ret>>

\* the coordinates and radii the form is given
FormPoints == {<<2, 2>>, <<6, 2>>}

Next ==
    \/ \E pt \in FormPoints : SetCoordinates(pt[2], pt[1])
    \/ \E r \in FormRadii : SetSearchRadius(r)
    \/ FindBuildingStart
    \/ FindBuildingResume
    \/ FindNearbyStart
    \/ FindNearbyResume
    \/ \E k \in 1..MaxFileFeatures : SelectNearbyBuilding(k)
    \/ TestGeoJsonAccessStart
    \/ TestGeoJsonAccessResume

Spec == Init /\ [][Next]_vars

\* every await of the component settles: the fetch resolves or rejects
SpecLive ==
    /\ Spec
    /\ WF_vars(FindBuildingResume)
    /\ WF_vars(FindNearbyResume)
    /\ WF_vars(TestGeoJsonAccessResume)

\* ----------------------------------------------------------------- map.ts
\* the test of initLeaflet that guards the import
NotLoaded(l) == l = "undefined"

\* createMap(element, ...) from its call to the first suspension: it calls
\* initLeaflet, which returns null outside the browser, starts the import
\* when L is not set, and returns L otherwise
createMapStart(c) ==
    /\ calls[c] = "idle"
    /\ IF ~browser
       THEN /\ calls' = [calls EXCEPT ![c] = "initNull"]
            /\ UNCHANGED imports
       ELSE IF NotLoaded(L)
       THEN /\ imports' = imports + 1
            /\ calls' = [calls EXCEPT ![c] = "import"]
       ELSE /\ calls' = [calls EXCEPT ![c] = "initL"]
            /\ UNCHANGED imports
    /\ UNCHANGED <<browser, L, links>>

\* a createMap call of another caller than the map component
CreateMapStart(c) ==
    /\ c # 1
    /\ createMapStart(c)
    /\ UNCHANGED <<calculator, view>>

\* initLeaflet from its await on: L is assigned, the stylesheet link is
\* appended to document.head, L is returned
ImportResolves(c) ==
    /\ calls[c] = "import"
    /\ L' = "leaflet"
    /\ links' = links + 1
    /\ calls' = [calls EXCEPT ![c] = "initL"]
    /\ UNCHANGED <<calculator, browser, imports, view>>

\* createMap from its await on: null without library or browser, else a map
\* (the element of the component is bound before onMount runs)
CreateMapResume(c) ==
    /\ calls[c] \in {"initNull", "initL"}
    /\ calls' = [calls EXCEPT ![c] =
                    IF calls[c] = "initL" /\ browser THEN "map" ELSE "null"]
    /\ UNCHANGED <<calculator, browser, L, imports, links, view>>

\* -------------------------------------------------------- the map component
\* the geocoding results and the buildings handed to the component
Results == 1..MaxResults
DisplayNames == {"A", "G", "N"}

\* onMount up to the await of createMap
Mount ==
    /\ mounted = "no"
    /\ mounted' = "yes"
    /\ createMapStart(1)
    /\ UNCHANGED <<calculator, map, geocodingResult, marker, markers, mapCenter,
                   updates, buildingProp, polygonLayer, layers, displays>>

\* onMount from the await on: map is assigned what createMap returned
MapAssigned ==
    /\ calls[1] \in {"map", "null"}
    /\ map' = calls[1]
    /\ calls' = [calls EXCEPT ![1] = "settled"]
    /\ UNCHANGED <<calculator, browser, L, imports, links, mounted,
                   geocodingResult, marker, markers, mapCenter, updates,
                   buildingProp, polygonLayer, layers, displays>>

\* onDestroy: map.remove() takes the map and everything on it away
Destroy ==
    /\ mounted = "yes"
    /\ mounted' = "destroyed"
    /\ IF map # "null"
       THEN /\ map' = "null"
            /\ markers' = {}
            /\ layers' = {}
       ELSE UNCHANGED <<map, markers, layers>>
    /\ UNCHANGED <<calculator, leaflet, geocodingResult, marker, mapCenter,
                   updates, buildingProp, polygonLayer, displays>>

KeepMarker(ms, held) == ms

\* marker.remove() on the marker the component holds
RemoveMarker(ms, held) == {m \in ms : m.call # held}

\* a geocodingResult arrives and the effect on it runs:
\* updateMapWithResult(result) when the map exists
ReceiveGeocodingResult(r) ==
    /\ mounted = "yes"
    /\ updates < MaxUpdates
    /\ geocodingResult' = r
    /\ IF map = "null"
       THEN UNCHANGED <<marker, markers, mapCenter, updates>>
       ELSE /\ updates' = updates + 1
            /\ mapCenter' = ResultView(r)
            /\ IF NotLoaded(L)
               \* addMarker throws: the old marker is gone, none is added
               THEN /\ markers' = RemoveMarker(markers, marker)
                    /\ UNCHANGED marker
               ELSE /\ markers' = RemoveMarker(markers, marker)
                                    \cup {[call |-> updates + 1, result |-> r]}
                    /\ marker' = updates + 1
    /\ UNCHANGED <<calculator, leaflet, mounted, map, buildingProp,
                   polygonLayer, layers, displays>>

\* the layers displayBuildingPolygon adds for a feature, in order; none when
\* reading the geometry throws inside the try
NewLayers(name, n) ==
    LET g == Geometry(name)
    IN  IF g.type = "Polygon" THEN << [call |-> n, part |-> 1] >>
        ELSE IF g.type = "MultiPolygon"
        THEN [i \in 1..Len(g.coordinates) |-> [call |-> n, part |-> i]]
        ELSE <<>>

\* what polygonLayer holds after the layers were added
HeldLayers(name, ids) ==
    IF ids = <<>> THEN NoLayer
    ELSE IF Geometry(name).type = "Polygon" THEN OneLayer(ids[1])
    ELSE LayerArray(ids)

\* polygonLayer.remove() throws when polygonLayer is an array
RemoveThrows(held) == held.kind = "array"

\* a building arrives and the effect on it runs: displayBuildingPolygon when
\* the map exists
ReceiveBuilding(b) ==
    /\ mounted = "yes"
    /\ displays < MaxDisplays
    /\ buildingProp' = b
    /\ IF map = "null"
       THEN UNCHANGED <<mapCenter, polygonLayer, layers, displays>>
       ELSE /\ displays' = displays + 1
            /\ IF RemoveThrows(polygonLayer)
               \* the TypeError leaves the function before its try
               THEN UNCHANGED <<mapCenter, polygonLayer, layers>>
               ELSE LET ids == NewLayers(b, displays + 1)
                        kept == layers \ {polygonLayer.ids[i] :
                                             i \in DOMAIN polygonLayer.ids}
                    IN  /\ layers' = kept \cup {ids[i] : i \in DOMAIN ids}
                        /\ polygonLayer' = HeldLayers(b, ids)
                        /\ mapCenter' = IF ids = <<>> THEN mapCenter
                                         ELSE BoundsView(displays + 1)
    /\ UNCHANGED <<calculator, leaflet, mounted, map, geocodingResult, marker,
                   markers, updates>>

InitMap ==
    /\ geojson \in {p \in Payloads : ~p.hasFeatures /\ p.ok}
    /\ lat = 2
    /\ lng = 2
    /\ searchRadius = RadiusStep
    /\ ret = NoCall
    /\ browser \in BOOLEAN
    /\ InitShown

NextMap ==
    \/ \E c \in Calls : CreateMapStart(c)
    \/ \E c \in Calls : ImportResolves(c)
    \/ \E c \in Calls : CreateMapResume(c)
    \/ Mount
    \/ MapAssigned
    \/ Destroy
    \/ \E r \in Results : ReceiveGeocodingResult(r)
    \/ \E b \in DisplayNames : ReceiveBuilding(b)

SpecMap == InitMap /\ [][NextMap]_vars

\* ================================================================ claims
\* What the claims compare the code against: the footprints as point sets.
\* A position is inside a rectangle when it is within its bounds, the
\* boundary included; strictly inside when off the boundary.
InRect(pt, x1, y1, x2, y2) == x1 <= pt[1] /\ pt[1] <= x2 /\ y1 <= pt[2] /\ pt[2] <= y2
StrictlyInRect(pt, x1, y1, x2, y2) == x1 < pt[1] /\ pt[1] < x2 /\ y1 < pt[2] /\ pt[2] < y2

\* the footprint really contains the position
Contains(name, pt) ==
    CASE name = "A" -> InRect(pt, 0, 0, 4, 4)
      [] name = "S" -> InRect(pt, 1, 1, 3, 3)
      [] name = "H" -> InRect(pt, 4, 0, 8, 4) /\ ~StrictlyInRect(pt, 5, 1, 7, 3)
      [] name = "G" -> InRect(pt, 0, 4, 2, 6) \/ InRect(pt, 6, 4, 8, 6)
      [] name = "M" -> InRect(pt, 0, 0, 4, 4)
      [] OTHER -> FALSE

\* footprints that are valid polygons or multi-polygons
WellFormed(name) == name \in {"A", "S", "H", "G"}
\* footprints whose point-in-polygon test raises a fault
PipFaulty(name) == name \in {"E", "N"}
\* footprints whose geometry is no valid polygon or multi-polygon
Malformed(name) == name \in {"E", "N"}

\* the last call was findBuildingAtCoordinates on a loaded, non-empty collection
ContainmentRan ==
    /\ ret.fn = "findBuildingAtCoordinates"
    /\ geojson.ok /\ geojson.hasFeatures /\ Len(geojson.features) > 0
\* the last call was findNearbyBuildings on a loaded, non-empty collection
ProximityRan ==
    /\ ret.fn = "findNearbyBuildings"
    /\ geojson.ok /\ geojson.hasFeatures /\ Len(geojson.features) > 0

RetPoint == <<ret.lng, ret.lat>>

\* C1 (as claimed): when findBuilding's containment search completes with no
\* match, the proximity search runs without further user action: as
\* findBuilding finishes, findNearbyBuildings has been invoked with the
\* coordinates and the radius of the form.
C1_AutoProximity ==
    [][(pending.fn = "findBuilding" /\ error' = ErrNoBuilding)
          => pending' = [fn |-> "findNearby", lat |-> lat, lng |-> lng,
                         radius |-> searchRadius]]_vars

\* C2: a match returned by findBuildingAtCoordinates is the lowest-index
\* feature of the collection that contains the query point, whatever the
\* areas of the features containing it.
C2_FirstMatch ==
    (ContainmentRan /\ ret.out.found) =>
        /\ Contains(geojson.features[ret.out.feature], RetPoint)
        /\ \A j \in 1..(ret.out.feature - 1) :
              ~Contains(geojson.features[j], RetPoint)

\* a match was returned although a later feature of smaller area, and in
\* another run one of larger area, contains the point as well
C2_Witness ==
    /\ ContainmentRan /\ ret.out.found
    /\ \E j \in (ret.out.feature + 1)..Len(geojson.features) :
          /\ Contains(geojson.features[j], RetPoint)
          /\ MeasureTable[geojson.features[j]].area < ret.out.area

\* C3 (as claimed): a returned match really contains the query point, and a
\* match is returned whenever some well-formed feature of the loaded
\* collection contains the point.
C3_SoundAndComplete ==
    ContainmentRan =>
        /\ ret.out.found => Contains(geojson.features[ret.out.feature], RetPoint)
        /\ (\E j \in 1..Len(geojson.features) :
               WellFormed(geojson.features[j]) /\ Contains(geojson.features[j], RetPoint))
             => ret.out.found

\* C4: every entry findNearbyBuildings returns has a distance strictly less
\* than radiusMeters.
C4_WithinRadius ==
    ProximityRan =>
        \A k \in 1..Len(ret.out.list) : ret.out.list[k].distance < ret.radius

\* entries were returned while a feature at exactly radiusMeters was left out
C4_Witness ==
    /\ ProximityRan /\ ret.out.list # <<>>
    /\ \E j \in 1..Len(geojson.features) :
          /\ ~Malformed(geojson.features[j])
          /\ DistanceTable[RetPoint, geojson.features[j]] = ret.radius
          /\ \A k \in 1..Len(ret.out.list) : ret.out.list[k].feature # j

\* C5: the sequence findNearbyBuildings returns is sorted non-decreasing by
\* distance.
C5_Sorted ==
    ProximityRan =>
        \A k \in 1..(Len(ret.out.list) - 1) :
            ret.out.list[k].distance <= ret.out.list[k + 1].distance

\* the result lists a feature before one that precedes it in the collection
\* and is farther away
C5_Witness ==
    /\ ProximityRan
    /\ \E k \in 1..(Len(ret.out.list) - 1) :
          /\ ret.out.list[k].feature > ret.out.list[k + 1].feature
          /\ ret.out.list[k].distance < ret.out.list[k + 1].distance

\* C6: entries of equal distance appear in the order of their features in
\* the collection.
C6_Stable ==
    ProximityRan =>
        \A k, l \in 1..Len(ret.out.list) :
            (k < l /\ ret.out.list[k].distance = ret.out.list[l].distance)
              => ret.out.list[k].feature < ret.out.list[l].feature

\* two entries tie behind an entry the sort moved in front of them
C6_Witness ==
    /\ ProximityRan
    /\ \E k \in 2..(Len(ret.out.list) - 1) :
          /\ ret.out.list[k].distance = ret.out.list[k + 1].distance
          /\ ret.out.list[1].feature > ret.out.list[k].feature

\* the indices of the features of the payload that are not PipFaulty, in order
KeptPip ==
    SelectSeq([i \in 1..Len(geojson.features) |-> i],
              LAMBDA i : ~PipFaulty(geojson.features[i]))
\* the indices of the features of the payload that are not Malformed, in order
KeptWell ==
    SelectSeq([i \in 1..Len(geojson.features) |-> i],
              LAMBDA i : ~Malformed(geojson.features[i]))

\* the payload with only the features at the indices kept
Restricted(kept) ==
    [geojson EXCEPT !.features = [k \in 1..Len(kept) |-> geojson.features[kept[k]]]]

\* outcome b, of a call on Restricted(kept), is outcome a of the call on the
\* whole payload: same failure, same feature, same measurements, same list
SameOutcome(a, b, kept) ==
    /\ a.threw = b.threw /\ a.message = b.message /\ a.found = b.found
    /\ b.found => kept[b.feature] = a.feature
    /\ a.perimeter = b.perimeter /\ a.area = b.area
    /\ Len(a.list) = Len(b.list)
    /\ \A k \in 1..Len(b.list) :
          /\ kept[b.list[k].feature] = a.list[k].feature
          /\ b.list[k].distance = a.list[k].distance

\* C7 (as claimed): the result of findBuildingAtCoordinates equals its
\* result on the collection with the features whose test faults removed.
C7_Original ==
    ContainmentRan =>
        SameOutcome(ret.out,
                    findBuildingAtCoordinates(ret.lat, ret.lng, Restricted(KeptPip)),
                    KeptPip)

\* C7 (amended): a fault of the point-in-polygon test never fails the
\* request; the result equals the result on the collection with the faulting
\* features removed whenever a feature remains, and is null when every
\* feature of the collection faults.
C7_FaultsSkipped ==
    ContainmentRan =>
        /\ ret.out.message # MsgTypeError
        /\ KeptPip # <<>> =>
              SameOutcome(ret.out,
                          findBuildingAtCoordinates(ret.lat, ret.lng, Restricted(KeptPip)),
                          KeptPip)
        /\ KeptPip = <<>> => (~ret.out.threw /\ ~ret.out.found)

\* a feature behind a faulting one was returned
C7_Witness ==
    /\ ContainmentRan /\ ret.out.found
    /\ \E j \in 1..(ret.out.feature - 1) : PipFaulty(geojson.features[j])

\* C8 (as claimed): on a loaded, non-empty collection findNearbyBuildings does
\* not throw, wherever a malformed feature sits, and returns what it returns
\* for the collection with the malformed features removed.
C8_MalformedSkipped ==
    ProximityRan =>
        /\ ~ret.out.threw
        /\ KeptWell # <<>> =>
              SameOutcome(ret.out,
                          findNearbyBuildings(ret.lat, ret.lng, ret.radius,
                                              Restricted(KeptWell)),
                          KeptWell)

\* C9 (as claimed): whenever the scan of findBuildingAtCoordinates selects a
\* feature, the call returns a match with its perimeter and area and does
\* not throw.
C9_MeasurementTotal ==
    (ContainmentRan /\ FindMatch(RetPoint, geojson.features) > 0) =>
        /\ ~ret.out.threw
        /\ ret.out.found
        /\ ret.out.feature = FindMatch(RetPoint, geojson.features)

\* C10: a payload without a features member, or with an empty one, makes
\* findBuildingAtCoordinates and findNearbyBuildings throw 'GeoJSON contains
\* no features'; neither returns null or a list.
C10_NoFeaturesThrows ==
    (/\ ret.fn # "none"
     /\ geojson.ok
     /\ (~geojson.hasFeatures \/ Len(geojson.features) = 0)) =>
        /\ ret.out.threw
        /\ ret.out.message = MsgNoFeatures

\* a call on a payload whose features member is present and empty has thrown
C10_Witness ==
    /\ ret.fn = "findNearbyBuildings"
    /\ geojson.ok /\ geojson.hasFeatures /\ Len(geojson.features) = 0
    /\ ret.out.threw

\* the message a failed load is thrown with
LoadFailureMessage(resp) ==
    CASE resp.failure = "fetch rejected" -> "Failed to fetch"
      [] resp.failure = "response not ok" -> "Failed to load GeoJSON"
      [] resp.failure = "json rejected" -> "SyntaxError"

C12_GuardNeverBlocks ==
    (/\ ret.fn = "findBuildingAtCoordinates"
     /\ ~(ret.lng + GridOrigin.lng <= -1300000)) =>
        /\ ret.out.warned
        /\ [ret.out EXCEPT !.warned = FALSE]
              = containmentSearch(ret.lat, ret.lng, geojson)
        /\ ~geojson.ok => ret.out.threw
        /\ (ContainmentRan /\ \A i \in DOMAIN geojson.features :
                                 WellFormed(geojson.features[i])) =>
              /\ ~ret.out.threw
              /\ ret.out.found
                    = (\E i \in DOMAIN geojson.features :
                          Contains(geojson.features[i], RetPoint))
              /\ ret.out.found =>
                    Contains(geojson.features[ret.out.feature], RetPoint)

\* a call with coordinates east of the region has returned a match
C12_Witness ==
    /\ ret.fn = "findBuildingAtCoordinates"
    /\ ret.lng + GridOrigin.lng > -1300000
    /\ ret.out.warned
    /\ ret.out.found
    /\ geojson.features[ret.out.feature] = "H"

\* C13: isInAlaska(lat, lng) is true exactly when -180 <= lng <= -130 and
\* 51 <= lat <= 72, all four bounds included; it is true for Anchorage
\* (61.2, -149.9) and false for New York (40.7, -74.0).
C13_RegionBounds ==
    ret.fn = "isInAlaska" =>
        /\ ret.out = (/\ -1800000 <= ret.lng /\ ret.lng <= -1300000
                      /\ 510000 <= ret.lat /\ ret.lat <= 720000)
        /\ (ret.lat = 612000 /\ ret.lng = -1499000) => ret.out
        /\ (ret.lat = 407000 /\ ret.lng = -740000) => ~ret.out

\* isInAlaska has answered for the north-east corner of the box
C13_Witness ==
    /\ ret.fn = "isInAlaska"
    /\ ret.lat = 720000 /\ ret.lng = -1300000
    /\ ret.out

\* C14: when no feature of a non-empty collection contains the query point,
\* findBuildingAtCoordinates returns null and does not throw, whether or not
\* a feature lies within 50 metres of the point.
C14_NullWhenNoneContains ==
    (/\ ContainmentRan
     /\ \A i \in DOMAIN geojson.features :
           ~Contains(geojson.features[i], RetPoint)) =>
        /\ ~ret.out.threw
        /\ ~ret.out.found

\* null has been returned for a point 20 metres from the centre of the only
\* footprint, which does not contain it
C14_Witness ==
    /\ ret.fn = "findBuildingAtCoordinates"
    /\ geojson.ok /\ geojson.features = <<"S">>
    /\ RetPoint = <<0, 2>>
    /\ ~ret.out.threw /\ ~ret.out.found

\* the position lies inside the outer ring of footprint H and strictly inside
\* its hole
InHoleOfH(pt) == InRect(pt, 4, 0, 8, 4) /\ StrictlyInRect(pt, 5, 1, 7, 3)
\* the position lies on the ring of the hole of footprint H
OnHoleOfH(pt) == InRect(pt, 5, 1, 7, 3) /\ ~StrictlyInRect(pt, 5, 1, 7, 3)
HasH == \E i \in DOMAIN geojson.features : geojson.features[i] = "H"

\* C15 (as claimed): a query point inside a polygon's outer ring and inside
\* one of its hole rings counts as contained, so findBuildingAtCoordinates
\* returns that feature for it.
C15_Original ==
    (ContainmentRan /\ HasH /\ InHoleOfH(RetPoint)) =>
        /\ ret.out.found
        /\ geojson.features[ret.out.feature] = "H"

\* C15 (amended): a query point strictly inside a hole ring of a polygon is
\* not contained in it, and findBuildingAtCoordinates never returns that
\* feature for it; a point on the hole's ring is contained, and the feature
\* is returned for it.
C15_HolesExcluded ==
    /\ (ContainmentRan /\ InHoleOfH(RetPoint)) =>
          /\ ~ret.out.threw
          /\ ret.out.found => geojson.features[ret.out.feature] # "H"
    /\ (ContainmentRan /\ HasH /\ OnHoleOfH(RetPoint)) =>
          /\ ret.out.found
          /\ geojson.features[ret.out.feature] = "H"

\* null has been returned for a point in the hole of H, on a collection that
\* holds H
C15_Witness ==
    /\ ContainmentRan /\ HasH /\ InHoleOfH(RetPoint)
    /\ ~ret.out.threw /\ ~ret.out.found

\* length of the boundary of a rectangle, metres
RectPerimeter(x1, y1, x2, y2) == 2 * ((x2 - x1) + (y2 - y1)) * StepMeters

\* the length of the outer rings of a well-formed footprint, metres
OuterPerimeter(name) ==
    CASE name = "A" -> RectPerimeter(0, 0, 4, 4)
      [] name = "S" -> RectPerimeter(1, 1, 3, 3)
      [] name = "H" -> RectPerimeter(4, 0, 8, 4)
      [] name = "G" -> RectPerimeter(0, 4, 2, 6) + RectPerimeter(6, 4, 8, 6)

\* C16: the perimeter returned for a matched Polygon is the length of its
\* outer ring, its hole rings adding nothing, and the perimeter returned for
\* a matched MultiPolygon is the sum of the outer-ring lengths of its
\* constituent polygons.
C16_PerimeterOuterRings ==
    (/\ ContainmentRan
     /\ ret.out.found
     /\ WellFormed(geojson.features[ret.out.feature])) =>
        ret.out.perimeter = OuterPerimeter(geojson.features[ret.out.feature])

\* the polygon with a hole has been matched and measured
C16_Witness ==
    /\ ContainmentRan
    /\ ret.out.found
    /\ geojson.features[ret.out.feature] = "H"
    /\ ret.out.perimeter = 160

\* a multi-polygon of two squares has been matched and measured
C16_WitnessMulti ==
    /\ ContainmentRan
    /\ ret.out.found
    /\ geojson.features[ret.out.feature] = "G"
    /\ ret.out.perimeter = 160

\* area of a rectangle, square metres
RectArea(x1, y1, x2, y2) == (x2 - x1) * (y2 - y1) * StepMeters * StepMeters

\* the area inside the outer rings of a well-formed footprint
OuterArea(name) ==
    CASE name = "A" -> RectArea(0, 0, 4, 4)
      [] name = "S" -> RectArea(1, 1, 3, 3)
      [] name = "H" -> RectArea(4, 0, 8, 4)
      [] name = "G" -> RectArea(0, 4, 2, 6) + RectArea(6, 4, 8, 6)

\* the area inside the hole rings of a well-formed footprint
HoleArea(name) == IF name = "H" THEN RectArea(5, 1, 7, 3) ELSE 0

\* C17 (as claimed): the area returned for a matched feature is that of its
\* outer rings, whatever hole rings it has; for a MultiPolygon it is the sum
\* of the outer-ring areas of the constituents.
C17_Original ==
    (/\ ContainmentRan
     /\ ret.out.found
     /\ WellFormed(geojson.features[ret.out.feature])) =>
        ret.out.area = OuterArea(geojson.features[ret.out.feature])

\* C17 (amended): the area returned for a matched feature is that of its
\* outer rings less that of its hole rings; for a MultiPolygon it is the sum
\* over the constituents.
C17_AreaLessHoles ==
    (/\ ContainmentRan
     /\ ret.out.found
     /\ WellFormed(geojson.features[ret.out.feature])) =>
        ret.out.area = OuterArea(geojson.features[ret.out.feature])
                         - HoleArea(geojson.features[ret.out.feature])

\* the polygon with a hole has been matched: 1600 square metres of outer
\* ring, 1200 returned
C17_Witness ==
    /\ ContainmentRan
    /\ ret.out.found
    /\ geojson.features[ret.out.feature] = "H"
    /\ ret.out.area = 1200

\* C18: perimeterToFeet(m) is m * 3.28084 and areaToSquareFeet(m2) is
\* m2 * 10.7639 for every input (results counted in 1e-5 ft and 1e-4 sq ft);
\* perimeterToFeet(0) is 0, and on non-negative inputs neither conversion
\* gives less than it gives for a smaller non-negative input.
C18_Conversions ==
    /\ ret.fn = "perimeterToFeet" =>
          /\ ret.out = ret.arg * 328084
          /\ ret.arg = 0 => ret.out = 0
          /\ \A k \in 0..ret.arg : perimeterToFeet(k) <= ret.out
    /\ ret.fn = "areaToSquareFeet" =>
          /\ ret.out = ret.arg * 107639
          /\ \A k \in 0..ret.arg : areaToSquareFeet(k) <= ret.out

\* 25 metres have been converted: 82.021 ft
C18_Witness ==
    /\ ret.fn = "perimeterToFeet"
    /\ ret.arg = 25
    /\ ret.out = 8202100

\* what findBuilding sets on an exact match of the footprint: the outcome of
\* findBuildingAtCoordinates on a file holding only that footprint, at a
\* point the footprint contains, converted as findBuilding converts it
MatchOf(name) ==
    LET pt == CHOOSE q \in QueryPoints : Contains(name, q)
    IN  findBuildingAtCoordinates(pt[2], pt[1],
            [ok |-> TRUE, failure |-> "", hasFeatures |-> TRUE,
             features |-> <<name>>])

\* C19: selecting a well-formed feature from the nearby list sets building
\* to that feature and perimeter and area to the values an exact match of
\* the same feature in findBuilding sets.
C19_SameOnBothPaths ==
    [][\A k \in 1..MaxFileFeatures + 1 :
          (/\ SelectNearbyBuilding(k)
           /\ WellFormed(geojson.features[nearbyBuildings[k].feature])) =>
              LET name == geojson.features[nearbyBuildings[k].feature]
              IN  /\ building' = nearbyBuildings[k].feature
                  /\ MatchOf(name).found
                  /\ perimeter' = perimeterToFeet(MatchOf(name).perimeter)
                  /\ area' = areaToSquareFeet(MatchOf(name).area)]_vars

\* the polygon with a hole, which contains neither point of the form, is the
\* selected building: 160 m of perimeter, 1200 square metres
C19_Witness ==
    /\ building # 0
    /\ geojson.features[building] = "H"
    /\ error = NoError
    /\ perimeter = 160 * 328084
    /\ area = 1200 * 107639

\* no feature of the collection has its representative point within the
\* radius of the call
NoneWithinRadius ==
    \A i \in DOMAIN geojson.features :
        \/ Malformed(geojson.features[i])
        \/ DistanceTable[RetPoint, geojson.features[i]] >= ret.radius

\* C20 (as claimed): when no feature is within the radius,
\* findNearbyBuildings returns an empty sequence and does not throw.
C20_EmptyIsNoError ==
    (ProximityRan /\ NoneWithinRadius) =>
        /\ ~ret.out.threw
        /\ ret.out.list = <<>>

\* C21 (as claimed): over any number of createMap calls, in any interleaving,
\* the library import is performed at most once and the stylesheet link is
\* appended to document.head at most once.
C21_LoadedOnce ==
    /\ imports <= 1
    /\ links <= 1

\* C22: whenever findBuilding, findNearby or testGeoJsonAccess has set loading
\* to true, loading is eventually false again, whether the fetch succeeds or
\* fails and whatever the search finds.
C22_LoadingEnds == loading ~> ~loading

\* testGeoJsonAccess has finished on a rejected fetch
C22_Witness ==
    /\ ~loading
    /\ pending = Idle
    /\ error = ErrAccessing("Failed to fetch")

\* the perimeter (1e-5 ft) and area (1e-4 sq ft) of a footprint: for a
\* well-formed one its outer rings and its surface, for another one what the
\* component's measurement of it gives
MeasuredFeet(name) ==
    IF WellFormed(name)
    THEN [perimeter |-> OuterPerimeter(name) * 328084,
          area |-> (OuterArea(name) - HoleArea(name)) * 107639]
    ELSE [perimeter |-> componentPerimeter(name) * 328084,
          area |-> componentArea(name) * 107639]

\* C23: in every reachable state of the calculator, when building is not
\* null the perimeter and area shown are the measurements, in feet and
\* square feet, of that building.
C23_MeasurementsOfBuilding ==
    building # 0 =>
        /\ perimeter = MeasuredFeet(geojson.features[building]).perimeter
        /\ area = MeasuredFeet(geojson.features[building]).area

\* the inner square is shown, picked from a list of two while a further
\* request is in flight
C23_Witness ==
    /\ building # 0
    /\ geojson.features[building] = "S"
    /\ Len(nearbyBuildings) = 2
    /\ loading
    /\ perimeter = 80 * 328084

\* C24 (as claimed): after any sequence of displayBuildingPolygon calls the
\* map holds only polygon layers added by the latest call; every layer of an
\* earlier building, each layer of an earlier MultiPolygon included, is gone.
C24_OnlyLatestLayers ==
    (map # "null" /\ displays > 0) =>
        \A l \in layers : l.call = displays

\* C25: after any sequence of geocoding results the map carries at most one
\* marker, the one added for the latest result; once updateMapWithResult has
\* run on an existing map there is exactly one.
C25_OneMarker ==
    /\ Cardinality(markers) <= 1
    /\ \A m \in markers : m.call = updates /\ m.result = geocodingResult
    /\ (map # "null" /\ updates > 0) =>
          /\ Cardinality(markers) = 1
          /\ marker = updates

\* a second result has replaced the marker of the first
C25_Witness ==
    /\ map # "null"
    /\ updates = 2
    /\ geocodingResult = 2
    /\ markers = {[call |-> 2, result |-> 2]}

\* C26 (as claimed): once the map exists it carries the marker of the latest
\* geocoding result and, no building having been displayed since, is centred
\* on it, also when the result arrived before createMap resolved.
C26_LatestShown ==
    (mounted = "yes" /\ map # "null" /\ geocodingResult # 0) =>
        /\ \E m \in markers : m.result = geocodingResult
        /\ displays = 0 => mapCenter = ResultView(geocodingResult)

====
